---- MODULE Spec2Model ----
(***************************************************************************)
(* ADC uclass core (drivers/adc/adc-uclass.c): channel validation, supply  *)
(* enabling, the polling read loops, the single-shot operations and the    *)
(* manual (per channel) emulation of a multi-channel conversion, and the   *)
(* resolution of the vdd / vss voltages (built with                        *)
(* CONFIG_ADC_REQ_REGULATOR).                                              *)
(*                                                                         *)
(* The driver (struct adc_ops), the regulators and the device registry are *)
(* the environment: every invocation of one of them returns a value drawn  *)
(* from a small set.                                                       *)
(***************************************************************************)
EXTENDS Integers, Sequences, FiniteSets

\* ---- bounds -------------------------------------------------------------
\* highest channel index (adc.h sets 12; the loops and masks only need a few)
ADC_MAX_CHANNEL == 3
\* largest data_timeout_us / multidata_timeout_us a device is given
MaxTimeout == 1

\* ---- errno values ---------------------------------------------------------
ENOENT == 2
EIO == 5
EBUSY == 16
ENODEV == 19
EINVAL == 22
ENOSYS == 38
ENODATA == 61

Channels == 0..ADC_MAX_CHANNEL
Masks == 0..(2^(ADC_MAX_CHANNEL + 1) - 1)

\* what the environment may answer
DriverStartResults == {0, -EIO, -ENOSYS}
DriverReadResults == {0, -EBUSY, -EIO}
RegulatorResults == {0, -EIO, -ENOSYS}
\* device_get_supply_regulator: found, no such phandle, not bound yet
LookupResults == {0, -ENOENT, -ENODEV}
\* the voltages a regulator may be set to, in uV
RegulatorValues == {1800, 3300}
\* dev_read_u32_default(dev, "vdd-microvolts", -ENODATA): absent, or set
MicrovoltsProperty == {-ENODATA, 1800}

\* ---- bit operations on unsigned masks -------------------------------------
Bit(m, i) == (m \div (2^i)) % 2

RECURSIVE BitAndUpTo(_, _, _)
BitAndUpTo(a, b, i) ==
    IF i < 0 THEN 0
    ELSE (IF Bit(a, i) = 1 /\ Bit(b, i) = 1 THEN 2^i ELSE 0) + BitAndUpTo(a, b, i - 1)

\* a & b, for masks over the channels 0..ADC_MAX_CHANNEL
BitAnd(a, b) == BitAndUpTo(a, b, ADC_MAX_CHANNEL)

VARIABLES
    uc_pdata,    \* struct adc_uclass_platdata of the device
    ops,         \* struct adc_ops: which callbacks the driver sets
    regulator,   \* the supplies: is each one enabled
    req,         \* the public function being executed, and its argument
    pc,          \* where it stands
    channel,     \* _adc_channels_single_shot: the loop variable
    timeout_us,  \* adc_channel_data / adc_channels_data: the local countdown
    ret,         \* the value returned (once pc = "done")
    data,        \* *data of adc_channel_data (the local of the manual loop)
    channels,    \* the caller's struct adc_channel array, entries written
    calls,       \* driver and regulator invocations of this request, in order
    uV,          \* *uV of adc_vdd_value / adc_vss_value
    diag,        \* adc_pre_probe: the error reported (pr_err) for each rail, or 0
    supply_uV    \* the regulators: the voltage each one is set to

vars == <<uc_pdata, ops, regulator, req, pc, channel, timeout_us, ret, data,
          channels, calls, uV, diag, supply_uV>>

\* ---- check_channel ----------------------------------------------------------
\* number_or_mask = TRUE is CHECK_NUMBER (value is a channel index),
\* FALSE is CHECK_MASK (value is a mask)
\* the bug of testing the numeric comparison alone
check_channel_compare_only(value, number_or_mask) ==
    LET mask == IF number_or_mask THEN 2^value ELSE value
    IN  IF uc_pdata.channel_mask >= mask THEN 0 ELSE -EINVAL

check_channel(value, number_or_mask) ==
    LET mask == IF number_or_mask THEN 2^value ELSE value
    IN  IF uc_pdata.channel_mask >= mask /\ BitAnd(uc_pdata.channel_mask, mask) # 0
        THEN 0
        ELSE -EINVAL

\* ---- adc_supply_enable ------------------------------------------------------
\* rv, rs: what regulator_set_enable answers for vdd and for vss, if asked.
\* Gives the return value, the regulator invocations made and the regulators'
\* state afterwards.
Invocation(fn, arg, res) == [fn |-> fn, arg |-> arg, res |-> res]

\* the bug of enabling vss whatever enabling vdd answered
adc_supply_enable_no_short_circuit(rv, rs) ==
    LET vdd == uc_pdata.vdd_supply
        vss == uc_pdata.vss_supply
        ret1 == IF vdd THEN rv ELSE 0
        ret2 == IF vss THEN rs ELSE ret1
    IN  [ret |-> ret2,
         calls |-> (IF vdd THEN <<Invocation("vdd_set_enable", 1, rv)>> ELSE <<>>)
                   \o (IF vss THEN <<Invocation("vss_set_enable", 1, rs)>> ELSE <<>>),
         regulator |-> [vdd |-> regulator.vdd \/ (vdd /\ rv = 0),
                        vss |-> regulator.vss \/ (vss /\ rs = 0)]]

\* the bug of switching vdd off again when enabling vss fails
adc_supply_enable_rollback(rv, rs) ==
    LET vdd == uc_pdata.vdd_supply
        ret1 == IF vdd THEN rv ELSE 0
        vss == ret1 = 0 /\ uc_pdata.vss_supply
        ret2 == IF vss THEN rs ELSE ret1
    IN  [ret |-> ret2,
         calls |-> (IF vdd THEN <<Invocation("vdd_set_enable", 1, rv)>> ELSE <<>>)
                   \o (IF vss THEN <<Invocation("vss_set_enable", 1, rs)>> ELSE <<>>),
         regulator |-> [vdd |-> (regulator.vdd \/ (vdd /\ rv = 0))
                                /\ ~(vss /\ rs # 0),
                        vss |-> regulator.vss \/ (vss /\ rs = 0)]]

adc_supply_enable(rv, rs) ==
    LET vdd == uc_pdata.vdd_supply
        ret1 == IF vdd THEN rv ELSE 0
        vss == ret1 = 0 /\ uc_pdata.vss_supply
        ret2 == IF vss THEN rs ELSE ret1
    IN  [ret |-> ret2,
         calls |-> (IF vdd THEN <<Invocation("vdd_set_enable", 1, rv)>> ELSE <<>>)
                   \o (IF vss THEN <<Invocation("vss_set_enable", 1, rs)>> ELSE <<>>),
         regulator |-> [vdd |-> regulator.vdd \/ (vdd /\ rv = 0),
                        vss |-> regulator.vss \/ (vss /\ rs = 0)]]

\* what regulator_set_enable may answer for each supply: a supply the device
\* does not have is never asked
VddResults == IF uc_pdata.vdd_supply THEN RegulatorResults ELSE {0}

VssResults == IF uc_pdata.vss_supply THEN RegulatorResults ELSE {0}

NoCall(r) == [ret |-> r, calls |-> <<>>, regulator |-> regulator]

\* ---- adc_start_channel / adc_start_channels ----------------------------------
\* rd: what the driver's callback answers, if invoked
adc_start_channel(c, rv, rs, rd) ==
    IF ~ops.start_channel THEN NoCall(-ENOSYS)
    ELSE IF check_channel(c, TRUE) # 0 THEN NoCall(check_channel(c, TRUE))
    ELSE LET s == adc_supply_enable(rv, rs)
         IN  IF s.ret # 0 THEN s
             ELSE [s EXCEPT !.ret = rd,
                            !.calls = Append(s.calls, Invocation("start_channel", c, rd))]

adc_start_channels(channel_mask, rv, rs, rd) ==
    IF ~ops.start_channels THEN NoCall(-ENOSYS)
    ELSE IF check_channel(channel_mask, FALSE) # 0
         THEN NoCall(check_channel(channel_mask, FALSE))
    ELSE LET s == adc_supply_enable(rv, rs)
         IN  IF s.ret # 0 THEN s
             ELSE [s EXCEPT !.ret = rd,
                            !.calls = Append(s.calls,
                                             Invocation("start_channels", channel_mask, rd))]

\* ---- adc_channel_data / adc_channels_data: the code before the loop ----------
adc_channel_data_enter(c) ==
    IF ~ops.channel_data THEN -ENOSYS ELSE check_channel(c, TRUE)

adc_channels_data_enter(channel_mask) ==
    IF ~ops.channels_data THEN -ENOSYS ELSE check_channel(channel_mask, FALSE)

\* the bug of counting down before the test: while (--timeout_us)
LoopAgain_predecrement(r, t) == r = -EBUSY /\ t > 1

\* the bug of leaving the loop on an error only: if (ret && ret != -EBUSY) break
LoopAgain_after_success(r, t) == r \in {0, -EBUSY} /\ t # 0

\* the bug of leaving the loop on success only: if (!ret) break
LoopAgain_after_error(r, t) == r # 0 /\ t # 0

\* do { ... } while (timeout_us--): does the loop go round again after ret
LoopAgain(r, t) == r = -EBUSY /\ t # 0

\* ---- the state --------------------------------------------------------------
Reading(id, d) == [id |-> id, data |-> d]

Request(op, arg) == [op |-> op, arg |-> arg]

\* The devices considered: a device with every channel, every callback, no
\* supply and no retry, and every device that differs from it in at most two
\* of its properties (any two, with any values).
Platdata == [channel_mask : Masks,
             data_timeout_us : 0..MaxTimeout,
             multidata_timeout_us : 0..MaxTimeout,
             vdd_supply : BOOLEAN,
             vss_supply : BOOLEAN]

Ops == [stop : BOOLEAN, start_channel : BOOLEAN, start_channels : BOOLEAN,
        channel_data : BOOLEAN, channels_data : BOOLEAN]

PlainPlatdata == [channel_mask |-> 2^(ADC_MAX_CHANNEL + 1) - 1,
                  data_timeout_us |-> 0,
                  multidata_timeout_us |-> 0,
                  vdd_supply |-> FALSE,
                  vss_supply |-> FALSE]

PlainOps == [stop |-> TRUE, start_channel |-> TRUE, start_channels |-> TRUE,
             channel_data |-> TRUE, channels_data |-> TRUE]

Differences(p, o) ==
    Cardinality({f \in DOMAIN p : p[f] # PlainPlatdata[f]})
    + Cardinality({f \in DOMAIN o : o[f] # PlainOps[f]})

\* The device p once adc_pre_probe has resolved its rails without an error:
\* a rail with a supply caches the voltage read from it, a rail without one
\* has no vdd-microvolts / vss-microvolts property, and no polarity is
\* negative. (ProbeSpec below covers every outcome of adc_pre_probe.)
Probed(p, v) ==
    [channel_mask |-> p.channel_mask,
     data_timeout_us |-> p.data_timeout_us,
     multidata_timeout_us |-> p.multidata_timeout_us,
     vdd_supply |-> p.vdd_supply,
     vss_supply |-> p.vss_supply,
     vdd_microvolts |-> IF p.vdd_supply THEN v.vdd ELSE -ENODATA,
     vss_microvolts |-> IF p.vss_supply THEN v.vss ELSE -ENODATA,
     vdd_polarity_negative |-> FALSE,
     vss_polarity_negative |-> FALSE]

Init ==
    /\ supply_uV = [vdd |-> 3300, vss |-> 1800]
    /\ ops \in Ops
    /\ \E p \in Platdata :
        /\ Differences(p, ops) <= 2
        /\ uc_pdata = Probed(p, supply_uV)
    /\ diag = [vdd |-> 0, vss |-> 0]
    /\ uV = 0
    /\ regulator = [vdd |-> FALSE, vss |-> FALSE]
    /\ req = Request("none", 0)
    /\ pc = "idle"
    /\ channel = 0
    /\ timeout_us = 0
    /\ ret = 0
    /\ data = 0
    /\ channels = <<>>
    /\ calls = <<>>

\* no function is running: the caller may call one
Idle == pc = "idle"

\* the function returns r to the caller
Return(r) ==
    /\ pc' = "done"
    /\ ret' = r

\* the caller's arguments and buffers as a call begins
Fresh(op, arg) ==
    /\ Idle
    /\ req' = Request(op, arg)
    /\ uV' = 0
    /\ UNCHANGED <<uc_pdata, ops, diag, supply_uV>>

\* ---- adc_stop ---------------------------------------------------------------
call_adc_stop ==
    /\ Fresh("adc_stop", 0)
    /\ \E rd \in DriverStartResults :
        IF ~ops.stop
        THEN Return(-ENOSYS) /\ calls' = <<>>
        ELSE Return(rd) /\ calls' = <<Invocation("stop", 0, rd)>>
    /\ channel' = 0 /\ timeout_us' = 0 /\ data' = 0
    /\ channels' = <<>>
    /\ UNCHANGED regulator

\* ---- adc_start_channel, adc_start_channels, called by the user ------------------
call_adc_start_channel ==
    \E c \in Channels, rv \in VddResults, rs \in VssResults,
       rd \in DriverStartResults :
        LET s == adc_start_channel(c, rv, rs, rd)
        IN  /\ Fresh("adc_start_channel", c)
            /\ Return(s.ret)
            /\ calls' = s.calls
            /\ regulator' = s.regulator
            /\ channel' = 0 /\ timeout_us' = 0 /\ data' = 0
            /\ channels' = <<>>

call_adc_start_channels ==
    \E m \in Masks, rv \in VddResults, rs \in VssResults,
       rd \in DriverStartResults :
        LET s == adc_start_channels(m, rv, rs, rd)
        IN  /\ Fresh("adc_start_channels", m)
            /\ Return(s.ret)
            /\ calls' = s.calls
            /\ regulator' = s.regulator
            /\ channel' = 0 /\ timeout_us' = 0 /\ data' = 0
            /\ channels' = <<>>

\* ---- adc_channel_data, called by the user: up to the loop ---------------------
call_adc_channel_data ==
    \E c \in Channels :
        LET r == adc_channel_data_enter(c)
        IN  /\ Fresh("adc_channel_data", c)
            /\ IF r # 0
               THEN Return(r) /\ timeout_us' = 0
               ELSE /\ pc' = "channel_data"
                    /\ ret' = 0
                    /\ timeout_us' = uc_pdata.data_timeout_us
            /\ calls' = <<>>
            /\ channel' = 0 /\ data' = 0
            /\ channels' = <<>>
            /\ UNCHANGED regulator

call_adc_channels_data ==
    \E m \in Masks :
        LET r == adc_channels_data_enter(m)
        IN  /\ Fresh("adc_channels_data", m)
            /\ IF r # 0
               THEN Return(r) /\ timeout_us' = 0
               ELSE /\ pc' = "channels_data"
                    /\ ret' = 0
                    /\ timeout_us' = uc_pdata.multidata_timeout_us
            /\ calls' = <<>>
            /\ channel' = 0 /\ data' = 0
            /\ channels' = <<>>
            /\ UNCHANGED regulator

\* ---- the driver's conversions ----------------------------------------------------
\* how many times fn has been invoked with arg in this request
Invoked(fn, arg) ==
    Cardinality({i \in 1..Len(calls) : calls[i].fn = fn /\ calls[i].arg = arg})

\* the raw sample the hardware holds for channel c at the k-th read of a
\* conversion: every channel and every read has its own
DriverSample(c, k) == c * (MaxTimeout + 2) + k

\* channels_data: one reading per bit of the mask, in ascending order
RECURSIVE MaskReadings(_, _, _)
MaskReadings(mask, f, c) ==
    IF c > ADC_MAX_CHANNEL THEN <<>>
    ELSE (IF Bit(mask, c) = 1 THEN <<Reading(c, f[c])>> ELSE <<>>)
         \o MaskReadings(mask, f, c + 1)

\* ---- adc_channel_data: one turn of the do-while loop ----------------------------
\* The channel read is the argument of the call, or the loop variable of
\* _adc_channels_single_shot. When the loop ends the function returns to
\* adc_channel_single_shot or to the user (both hand ret on), or to
\* _adc_channels_single_shot, which stores the reading and goes on.
PolledChannel == IF req.op = "adc_channels_single_shot" THEN channel ELSE req.arg

\* what the driver stores through data if this read succeeds
ChannelSample ==
    DriverSample(PolledChannel, Invoked("channel_data", PolledChannel) + 1)

\* what the driver stores in channels[] if this read succeeds
ChannelsSample ==
    [c \in Channels |-> DriverSample(c, Invoked("channels_data", req.arg) + 1)]

adc_channel_data_loop ==
    /\ pc = "channel_data"
    /\ \E r \in DriverReadResults :
        /\ calls' = Append(calls, Invocation("channel_data", PolledChannel, r))
        /\ data' = IF r = 0 THEN ChannelSample ELSE data
        /\ IF LoopAgain(r, timeout_us)
           THEN /\ timeout_us' = timeout_us - 1
                /\ ret' = r
                /\ UNCHANGED <<pc, channel, channels>>
           ELSE /\ timeout_us' = 0   \* dead from here on
                /\ IF req.op = "adc_channels_single_shot" /\ r = 0
                   THEN /\ channels' = Append(channels, Reading(channel, ChannelSample))
                        /\ channel' = channel + 1
                        /\ pc' = "manual"
                        /\ ret' = r
                   ELSE /\ Return(r)
                        /\ UNCHANGED <<channel, channels>>
    /\ UNCHANGED <<uc_pdata, ops, regulator, req, uV, diag, supply_uV>>

\* ---- adc_channels_data: one turn of the do-while loop ---------------------------
adc_channels_data_loop ==
    /\ pc = "channels_data"
    /\ \E r \in DriverReadResults :
        /\ calls' = Append(calls, Invocation("channels_data", req.arg, r))
        /\ channels' = IF r = 0 THEN MaskReadings(req.arg, ChannelsSample, 0)
                       ELSE channels
        /\ IF LoopAgain(r, timeout_us)
           THEN /\ timeout_us' = timeout_us - 1
                /\ ret' = r
                /\ UNCHANGED pc
           ELSE /\ timeout_us' = 0   \* dead from here on
                /\ Return(r)
    /\ UNCHANGED <<uc_pdata, ops, regulator, req, channel, data, uV, diag,
                   supply_uV>>

\* ---- adc_channel_single_shot: up to the loop of adc_channel_data ----------------
\* found: does uclass_get_device_by_name find the device
\* the bug of reading whatever adc_start_channel answered
call_adc_channel_single_shot_reads_anyway ==
    \E found \in BOOLEAN, c \in Channels, rv \in VddResults,
       rs \in VssResults, rd \in DriverStartResults :
        LET s == adc_start_channel(c, rv, rs, rd)
            r == adc_channel_data_enter(c)
        IN  /\ Fresh("adc_channel_single_shot", c)
            /\ channel' = 0 /\ data' = 0
            /\ channels' = <<>>
            /\ IF ~found
               THEN /\ Return(-ENODEV)
                    /\ calls' = <<>> /\ timeout_us' = 0
                    /\ UNCHANGED regulator
               ELSE /\ calls' = s.calls
                    /\ regulator' = s.regulator
                    /\ IF r # 0 THEN Return(r) /\ timeout_us' = 0
                       ELSE /\ pc' = "channel_data"
                            /\ ret' = 0
                            /\ timeout_us' = uc_pdata.data_timeout_us

call_adc_channel_single_shot ==
    \E found \in BOOLEAN, c \in Channels, rv \in VddResults,
       rs \in VssResults, rd \in DriverStartResults :
        LET s == adc_start_channel(c, rv, rs, rd)
            r == adc_channel_data_enter(c)
        IN  /\ Fresh("adc_channel_single_shot", c)
            /\ channel' = 0 /\ data' = 0
            /\ channels' = <<>>
            /\ IF ~found
               THEN /\ Return(-ENODEV)
                    /\ calls' = <<>> /\ timeout_us' = 0
                    /\ UNCHANGED regulator
               ELSE /\ calls' = s.calls
                    /\ regulator' = s.regulator
                    /\ IF s.ret # 0 THEN Return(s.ret) /\ timeout_us' = 0
                       ELSE IF r # 0 THEN Return(r) /\ timeout_us' = 0
                       ELSE /\ pc' = "channel_data"
                            /\ ret' = 0
                            /\ timeout_us' = uc_pdata.data_timeout_us

\* ---- adc_channels_single_shot: up to the loop of adc_channels_data, or to
\* ---- try_manual ----------------------------------------------------------------
\* the bug of taking the manual mode after any failure of adc_start_channels
TryManual_any_error(r) == r # 0

\* try_manual: with r # 0 out of adc_start_channels, is the manual mode taken
TryManual(r) == r = -ENOSYS

call_adc_channels_single_shot ==
    \E found \in BOOLEAN, m \in Masks, rv \in VddResults,
       rs \in VssResults, rd \in DriverStartResults :
        LET s == adc_start_channels(m, rv, rs, rd)
            r == adc_channels_data_enter(m)
        IN  /\ Fresh("adc_channels_single_shot", m)
            /\ channel' = 0 /\ data' = 0
            /\ channels' = <<>>
            /\ IF ~found
               THEN /\ Return(-ENODEV)
                    /\ calls' = <<>> /\ timeout_us' = 0
                    /\ UNCHANGED regulator
               ELSE /\ calls' = s.calls
                    /\ regulator' = s.regulator
                    /\ IF s.ret # 0
                       THEN /\ timeout_us' = 0
                            /\ IF TryManual(s.ret)
                               THEN pc' = "manual" /\ ret' = s.ret
                               ELSE Return(s.ret)
                       ELSE IF r # 0 THEN Return(r) /\ timeout_us' = 0
                       ELSE /\ pc' = "channels_data"
                            /\ ret' = 0
                            /\ timeout_us' = uc_pdata.multidata_timeout_us

\* ---- _adc_channels_single_shot: from the loop head to the next read loop --------
\* the bug of stopping the loop short: channel < ADC_MAX_CHANNEL
ChannelsFrom_exclusive(mask, c) ==
    {n \in Channels : n >= c /\ n < ADC_MAX_CHANNEL /\ Bit(mask, n) = 1}

\* the channels from c on whose bit is set in the mask
ChannelsFrom(mask, c) == {n \in Channels : n >= c /\ Bit(mask, n) = 1}

\* the bug of running the loop from the highest channel down
Max(S) == CHOOSE n \in S : \A k \in S : n >= k

\* the loop visits the channels in ascending order: the lowest one left
Min(S) == CHOOSE n \in S : \A k \in S : n <= k

adc_channels_single_shot_manual ==
    /\ pc = "manual"
    /\ \E rv \in VddResults, rs \in VssResults, rd \in DriverStartResults :
        IF ChannelsFrom(req.arg, channel) = {}
        THEN /\ Return(0)
             /\ channel' = ADC_MAX_CHANNEL + 1
             /\ UNCHANGED <<regulator, calls, timeout_us>>
        ELSE LET c == Min(ChannelsFrom(req.arg, channel))
                 s == adc_start_channel(c, rv, rs, rd)
                 r == adc_channel_data_enter(c)
             IN  /\ channel' = c
                 /\ calls' = calls \o s.calls
                 /\ regulator' = s.regulator
                 /\ IF s.ret # 0 THEN Return(s.ret) /\ UNCHANGED timeout_us
                    ELSE IF r # 0 THEN Return(r) /\ UNCHANGED timeout_us
                    ELSE /\ pc' = "channel_data"
                         /\ ret' = 0
                         /\ timeout_us' = uc_pdata.data_timeout_us
    /\ UNCHANGED <<uc_pdata, ops, req, data, channels, uV, diag, supply_uV>>

\* ---- adc_vdd_platdata_update / adc_vss_platdata_update ---------------------------
\* p: the platdata; lookup: what device_get_supply_regulator answers (it
\* stores the supply found, and none when it fails); value: what
\* regulator_get_value answers, the voltage or an error below 0.
\* Gives the return value and the platdata afterwards.
\* the bug of not caching the voltage read
adc_vdd_platdata_update_no_store(p, lookup, value) ==
    LET p1 == [p EXCEPT !.vdd_supply = (lookup = 0)]
    IN  IF lookup # 0 THEN [ret |-> lookup, pdata |-> p1]
        ELSE IF value < 0 THEN [ret |-> value, pdata |-> p1]
        ELSE [ret |-> 0, pdata |-> p1]

adc_vdd_platdata_update(p, lookup, value) ==
    LET p1 == [p EXCEPT !.vdd_supply = (lookup = 0)]
    IN  IF lookup # 0 THEN [ret |-> lookup, pdata |-> p1]
        ELSE IF value < 0 THEN [ret |-> value, pdata |-> p1]
        ELSE [ret |-> 0, pdata |-> [p1 EXCEPT !.vdd_microvolts = value]]

adc_vss_platdata_update(p, lookup, value) ==
    LET p1 == [p EXCEPT !.vss_supply = (lookup = 0)]
    IN  IF lookup # 0 THEN [ret |-> lookup, pdata |-> p1]
        ELSE IF value < 0 THEN [ret |-> value, pdata |-> p1]
        ELSE [ret |-> 0, pdata |-> [p1 EXCEPT !.vss_microvolts = value]]

\* ---- adc_vdd_value / adc_vss_value ------------------------------------------------
\* value: what regulator_get_value answers, if asked. The supply found when
\* the device was probed is found again by the update. out: *uV before the
\* call. Gives the return value, the platdata and *uV afterwards.
\* the bug of dropping the polarity
adc_vdd_value_unsigned(p, value, out) ==
    LET u == IF p.vdd_supply THEN adc_vdd_platdata_update(p, 0, value)
             ELSE [ret |-> 0, pdata |-> p]
    IN  IF u.ret # 0 THEN [ret |-> u.ret, pdata |-> u.pdata, uV |-> out]
        ELSE IF u.pdata.vdd_microvolts = -ENODATA
             THEN [ret |-> -ENODATA, pdata |-> u.pdata, uV |-> out]
        ELSE [ret |-> 0, pdata |-> u.pdata, uV |-> u.pdata.vdd_microvolts]

adc_vdd_value(p, value, out) ==
    LET value_sign == IF p.vdd_polarity_negative THEN -1 ELSE 1
        u == IF p.vdd_supply THEN adc_vdd_platdata_update(p, 0, value)
             ELSE [ret |-> 0, pdata |-> p]
    IN  IF u.ret # 0 THEN [ret |-> u.ret, pdata |-> u.pdata, uV |-> out]
        ELSE IF u.pdata.vdd_microvolts = -ENODATA
             THEN [ret |-> -ENODATA, pdata |-> u.pdata, uV |-> out]
        ELSE [ret |-> 0, pdata |-> u.pdata,
              uV |-> u.pdata.vdd_microvolts * value_sign]

\* the bug of answering the cached voltage when the update fails
adc_vss_value_swallows_error(p, value, out) ==
    LET value_sign == IF p.vss_polarity_negative THEN -1 ELSE 1
        u == IF p.vss_supply THEN adc_vss_platdata_update(p, 0, value)
             ELSE [ret |-> 0, pdata |-> p]
    IN  IF u.pdata.vss_microvolts = -ENODATA
        THEN [ret |-> -ENODATA, pdata |-> u.pdata, uV |-> out]
        ELSE [ret |-> 0, pdata |-> u.pdata,
              uV |-> u.pdata.vss_microvolts * value_sign]

adc_vss_value(p, value, out) ==
    LET value_sign == IF p.vss_polarity_negative THEN -1 ELSE 1
        u == IF p.vss_supply THEN adc_vss_platdata_update(p, 0, value)
             ELSE [ret |-> 0, pdata |-> p]
    IN  IF u.ret # 0 THEN [ret |-> u.ret, pdata |-> u.pdata, uV |-> out]
        ELSE IF u.pdata.vss_microvolts = -ENODATA
             THEN [ret |-> -ENODATA, pdata |-> u.pdata, uV |-> out]
        ELSE [ret |-> 0, pdata |-> u.pdata,
              uV |-> u.pdata.vss_microvolts * value_sign]

\* what regulator_get_value may answer: the voltage the regulator is set to,
\* or an error; a supply the device does not have is never asked
VddValues == IF uc_pdata.vdd_supply THEN {supply_uV.vdd, -EIO} ELSE {0}

VssValues == IF uc_pdata.vss_supply THEN {supply_uV.vss, -EIO} ELSE {0}

call_adc_vdd_value ==
    /\ Idle
    /\ req' = Request("adc_vdd_value", 0)
    /\ \E value \in VddValues :
        LET v == adc_vdd_value(uc_pdata, value, 0)
        IN  /\ Return(v.ret)
            /\ uc_pdata' = v.pdata
            /\ uV' = v.uV
            /\ calls' = IF uc_pdata.vdd_supply
                        THEN <<Invocation("vdd_get_value", 0, value)>>
                        ELSE <<>>
    /\ channel' = 0 /\ timeout_us' = 0 /\ data' = 0
    /\ channels' = <<>>
    /\ UNCHANGED <<ops, regulator, diag, supply_uV>>

call_adc_vss_value ==
    /\ Idle
    /\ req' = Request("adc_vss_value", 0)
    /\ \E value \in VssValues :
        LET v == adc_vss_value(uc_pdata, value, 0)
        IN  /\ Return(v.ret)
            /\ uc_pdata' = v.pdata
            /\ uV' = v.uV
            /\ calls' = IF uc_pdata.vss_supply
                        THEN <<Invocation("vss_get_value", 0, value)>>
                        ELSE <<>>
    /\ channel' = 0 /\ timeout_us' = 0 /\ data' = 0
    /\ channels' = <<>>
    /\ UNCHANGED <<ops, regulator, diag, supply_uV>>

\* ---- adc_vdd_platdata_set / adc_vss_platdata_set, adc_pre_probe -------------------
\* polarity: dev_read_bool of "vdd-polarity-negative"; prop: the
\* "vdd-microvolts" property, -ENODATA if the device tree has none
adc_vdd_platdata_set(p, polarity, lookup, value, prop) ==
    LET p1 == [p EXCEPT !.vdd_polarity_negative = polarity]
        u == adc_vdd_platdata_update(p1, lookup, value)
    IN  IF u.ret # -ENOENT THEN u
        ELSE [ret |-> 0, pdata |-> [u.pdata EXCEPT !.vdd_microvolts = prop]]

adc_vss_platdata_set(p, polarity, lookup, value, prop) ==
    LET p1 == [p EXCEPT !.vss_polarity_negative = polarity]
        u == adc_vss_platdata_update(p1, lookup, value)
    IN  IF u.ret # -ENOENT THEN u
        ELSE [ret |-> 0, pdata |-> [u.pdata EXCEPT !.vss_microvolts = prop]]

\* the device tree and the regulators as adc_pre_probe finds them, per rail
ProbeInput == [polarity : BOOLEAN, lookup : LookupResults, failed : BOOLEAN,
               prop : MicrovoltsProperty]

\* the platdata the uclass allocates for a device (zeroed), here for a driver
\* that serves every channel with no retry
Allocated ==
    [channel_mask |-> PlainPlatdata.channel_mask,
     data_timeout_us |-> PlainPlatdata.data_timeout_us,
     multidata_timeout_us |-> PlainPlatdata.multidata_timeout_us,
     vdd_supply |-> FALSE,
     vss_supply |-> FALSE,
     vdd_microvolts |-> 0,
     vss_microvolts |-> 0,
     vdd_polarity_negative |-> FALSE,
     vss_polarity_negative |-> FALSE]

adc_pre_probe ==
    /\ pc = "unprobed"
    /\ req' = Request("adc_pre_probe", 0)
    /\ \E vdd \in ProbeInput, vss \in ProbeInput :
        LET d == adc_vdd_platdata_set(uc_pdata, vdd.polarity, vdd.lookup,
                                      IF vdd.failed THEN -EIO ELSE supply_uV.vdd,
                                      vdd.prop)
            s == adc_vss_platdata_set(d.pdata, vss.polarity, vss.lookup,
                                      IF vss.failed THEN -EIO ELSE supply_uV.vss,
                                      vss.prop)
        IN  /\ uc_pdata' = s.pdata
            /\ diag' = [vdd |-> d.ret, vss |-> s.ret]
            /\ Return(0)
    /\ UNCHANGED <<ops, regulator, channel, timeout_us, data, channels, calls,
                   uV, supply_uV>>

\* ---- the regulators: somebody sets another voltage -----------------------------
regulator_set_value ==
    /\ Idle
    /\ supply_uV' \in [vdd : RegulatorValues, vss : RegulatorValues]
    /\ supply_uV' # supply_uV
    /\ UNCHANGED <<uc_pdata, ops, regulator, req, pc, channel, timeout_us, ret,
                   data, channels, calls, uV, diag>>

\* ---- the caller has the result and is free to call again -------------------------
caller_returns ==
    /\ pc = "done"
    /\ pc' = "idle"
    /\ req' = Request("none", 0)
    /\ channel' = 0 /\ timeout_us' = 0 /\ ret' = 0 /\ data' = 0
    /\ channels' = <<>> /\ calls' = <<>> /\ uV' = 0
    /\ UNCHANGED <<uc_pdata, ops, regulator, diag, supply_uV>>

Next ==
    \/ caller_returns
    \/ call_adc_stop
    \/ call_adc_start_channel
    \/ call_adc_start_channels
    \/ call_adc_channel_data
    \/ call_adc_channels_data
    \/ adc_channel_data_loop
    \/ adc_channels_data_loop
    \/ call_adc_channel_single_shot
    \/ call_adc_channels_single_shot
    \/ adc_channels_single_shot_manual
    \/ call_adc_vdd_value
    \/ call_adc_vss_value

Spec == Init /\ [][Next]_vars

\* ---- the voltages, from the allocation of the device on ------------------------
\* Every outcome of adc_pre_probe, then any sequence of adc_vdd_value /
\* adc_vss_value while the regulators are set to one voltage or another.
ProbeInit ==
    /\ uc_pdata = Allocated
    /\ ops = PlainOps
    /\ supply_uV \in [vdd : RegulatorValues, vss : RegulatorValues]
    /\ diag = [vdd |-> 0, vss |-> 0]
    /\ regulator = [vdd |-> FALSE, vss |-> FALSE]
    /\ req = Request("none", 0)
    /\ pc = "unprobed"
    /\ channel = 0
    /\ timeout_us = 0
    /\ ret = 0
    /\ data = 0
    /\ uV = 0
    /\ channels = <<>>
    /\ calls = <<>>

ProbeNext ==
    \/ adc_pre_probe
    \/ caller_returns
    \/ call_adc_vdd_value
    \/ call_adc_vss_value
    \/ regulator_set_value

ProbeSpec == ProbeInit /\ [][ProbeNext]_vars

\* =========================================================================
\* Properties
\* =========================================================================
Last(q) == q[Len(q)]

\* every bit set in r is set in m
MaskWithin(r, m) == BitAnd(r, m) = r

\* the channels requested by mask m, as a set
MaskChannels(m) == {c \in Channels : Bit(m, c) = 1}

\* the invocations of this request that name fn
Calls(fn) == SelectSeq(calls, LAMBDA e : e.fn = fn)

\* C1: for a multi-channel request R (adc_start_channels, adc_channels_data)
\* on a device with channel_mask M, validation succeeds if and only if
\* R & M = R, and a refused request returns -EINVAL.
C1_MaskValidation ==
    /\ (req.op = "adc_start_channels" /\ pc = "done" /\ ops.start_channels)
        => /\ (calls # <<>>) <=> MaskWithin(req.arg, uc_pdata.channel_mask)
           /\ calls = <<>> => ret = -EINVAL
    /\ (req.op = "adc_channels_data" /\ pc # "idle" /\ ops.channels_data)
        => /\ (pc = "channels_data" \/ calls # <<>>)
                <=> MaskWithin(req.arg, uc_pdata.channel_mask)
           /\ (pc = "done" /\ calls = <<>>) => ret = -EINVAL

\* C2: for a single-channel request c (adc_start_channel, adc_channel_data)
\* on a device with channel_mask M, validation succeeds if and only if bit c
\* of M is set, and a refused request returns -EINVAL.
C2_NumberValidation ==
    /\ (req.op = "adc_start_channel" /\ pc = "done" /\ ops.start_channel)
        => /\ (calls # <<>>) <=> Bit(uc_pdata.channel_mask, req.arg) = 1
           /\ calls = <<>> => ret = -EINVAL
    /\ (req.op = "adc_channel_data" /\ pc # "idle" /\ ops.channel_data)
        => /\ (pc = "channel_data" \/ calls # <<>>)
                <=> Bit(uc_pdata.channel_mask, req.arg) = 1
           /\ (pc = "done" /\ calls = <<>>) => ret = -EINVAL

\* channel 3 read on a device whose channels 0 and 2 are inactive
C2_Witness ==
    /\ req.op = "adc_channel_data" /\ pc = "done" /\ ret = 0
    /\ req.arg = 3
    /\ uc_pdata.channel_mask = 10

\* ---- the read loops ---------------------------------------------------------
\* the request reads one channel
SingleRead == req.op \in {"adc_channel_data", "adc_channel_single_shot"}

\* the request reads a mask through the driver's channels_data
MultiRead == pc = "channels_data" \/ Calls("channels_data") # <<>>

\* the driver reads of the conversion at hand (in manual mode, of the channel
\* at hand), and the budget of that read
Reads ==
    IF SingleRead THEN Calls("channel_data")
    ELSE IF MultiRead THEN Calls("channels_data")
    ELSE SelectSeq(calls, LAMBDA e : e.fn = "channel_data" /\ e.arg = channel)

Budget ==
    IF MultiRead THEN uc_pdata.multidata_timeout_us ELSE uc_pdata.data_timeout_us

Polling == pc \in {"channel_data", "channels_data"}

AllBusy(q) == \A i \in 1..Len(q) : q[i].res = -EBUSY

\* C3: a read whose driver answers -EBUSY every time ends after exactly T + 1
\* invocations of the driver's read, T the budget (data_timeout_us for one
\* channel, multidata_timeout_us for a mask), and returns -EBUSY; T = 0 gives
\* exactly one invocation. While it polls, the countdown is T less the reads
\* made, so fewer than T + 1 reads have been made.
C3_BusyBudget ==
    AllBusy(Reads) =>
        /\ Polling => /\ timeout_us = Budget - Len(Reads)
                      /\ Len(Reads) <= Budget
        /\ (pc = "done" /\ Reads # <<>>) => /\ Len(Reads) = Budget + 1
                                            /\ ret = -EBUSY

\* a read of one channel gave up after budget + 1 busy answers, budget > 0
C3_Witness ==
    /\ req.op = "adc_channel_data" /\ pc = "done" /\ ret = -EBUSY
    /\ uc_pdata.data_timeout_us = 1
    /\ Len(Calls("channel_data")) = 2

\* C4: when the driver's read answers -EBUSY on attempts 1..k-1 and succeeds
\* on attempt k, k <= T + 1, the read makes exactly k invocations, returns 0,
\* and hands the caller the sample of attempt k.
C4_SuccessOnAttemptK ==
    (Reads # <<>> /\ Last(Reads).res = 0 /\ (SingleRead \/ MultiRead)) =>
        LET k == Len(Reads)
        IN  /\ pc = "done"
            /\ ret = 0
            /\ k <= Budget + 1
            /\ AllBusy(SubSeq(Reads, 1, k - 1))
            /\ SingleRead => data = DriverSample(req.arg, k)
            /\ ~SingleRead =>
                   channels = MaskReadings(req.arg,
                                           [c \in Channels |-> DriverSample(c, k)], 0)

\* a read of one channel that succeeded at the second attempt
C4_Witness ==
    /\ req.op = "adc_channel_single_shot" /\ pc = "done" /\ ret = 0
    /\ Len(Calls("channel_data")) = 2
    /\ data = DriverSample(req.arg, 2)

\* C5: when the driver's read answers an error other than -EBUSY on attempt
\* k (after -EBUSY on attempts 1..k-1), the read returns that error at once:
\* exactly k invocations, whatever is left of the budget.
C5_ErrorStopsPolling ==
    (Reads # <<>> /\ Last(Reads).res \notin {0, -EBUSY}) =>
        /\ pc = "done"
        /\ ret = Last(Reads).res
        /\ Len(Reads) <= Budget + 1
        /\ AllBusy(SubSeq(Reads, 1, Len(Reads) - 1))

\* the driver failed at the first attempt, with budget left
C5_Witness ==
    /\ req.op = "adc_channel_data" /\ pc = "done" /\ ret = -EIO
    /\ uc_pdata.data_timeout_us = 1
    /\ Len(Calls("channel_data")) = 1

\* ---- the manual mode of adc_channels_single_shot ------------------------------
MultiShot == req.op = "adc_channels_single_shot"

\* the sample of the last read made of channel c
LastSample == [c \in Channels |-> DriverSample(c, Invoked("channel_data", c))]

\* the driver invocations of the manual mode, in order
ManualCalls == SelectSeq(calls, LAMBDA e : e.fn \in {"start_channel", "channel_data"})

\* C6: when the manual mode has converted every channel of the mask, the
\* caller's array holds exactly one entry (channel, sample) per bit of the
\* mask, in strictly ascending channel order, and the driver was asked in
\* that order: for each channel one start_channel, then its channel_data.
C6_ManualAscending ==
    (MultiShot /\ pc = "done" /\ ret = 0 /\ ~MultiRead) =>
        /\ Len(channels) = Cardinality(MaskChannels(req.arg))
        /\ \A i \in 1..Len(channels) :
            /\ channels[i].id \in MaskChannels(req.arg)
            /\ channels[i].data = LastSample[channels[i].id]
            /\ i > 1 => channels[i - 1].id < channels[i].id
        /\ \A c \in Channels :
            Invoked("start_channel", c) = IF c \in MaskChannels(req.arg) THEN 1 ELSE 0
        /\ \A i \in 1..Len(ManualCalls), j \in 1..Len(ManualCalls) :
            i < j => /\ ManualCalls[i].arg <= ManualCalls[j].arg
                     /\ ManualCalls[i].arg = ManualCalls[j].arg
                            => ManualCalls[j].fn = "channel_data"

\* mask 0b1010 converted by the manual mode: channel 1, then channel 3
C6_Witness ==
    /\ MultiShot /\ pc = "done" /\ ret = 0 /\ ~ops.start_channels
    /\ req.arg = 10
    /\ channels = <<Reading(1, LastSample[1]), Reading(3, LastSample[3])>>

\* C7 as stated: when adc_channels_single_shot fails, the caller's array
\* holds no entry written by it.
C7_AllOrNothing ==
    (MultiShot /\ pc = "done" /\ ret # 0) => channels = <<>>

\* C7 amended: when a start or a read of one channel fails in the manual
\* mode, the operation returns that failure at once, and the readings of the
\* channels converted before it stay in the caller's array: it holds exactly
\* the requested channels below the failing one, in ascending order.
C7_EarlierReadingsKept ==
    (MultiShot /\ pc = "done" /\ ret # 0) =>
        /\ channels = MaskReadings(req.arg % (2^channel), LastSample, 0)
        /\ (calls # <<>> /\ Last(calls).fn \in {"start_channel", "channel_data"}
            /\ Last(calls).res # 0)
                => /\ ret = Last(calls).res
                   /\ Last(calls).arg = channel

\* over mask 0b1010 the start of channel 3 fails after channel 1 was read
C7_Witness ==
    /\ MultiShot /\ pc = "done" /\ ret = -EIO
    /\ req.arg = 10 /\ channel = 3
    /\ Last(calls) = Invocation("start_channel", 3, -EIO)
    /\ channels = <<Reading(1, LastSample[1])>>

\* ---- supplies -----------------------------------------------------------------
FailedEnables ==
    {i \in 1..Len(calls) : calls[i].fn \in {"vdd_set_enable", "vss_set_enable"}
                           /\ calls[i].res # 0}

\* C8: once enabling the vdd supply (or, vdd absent or enabled, the vss
\* supply) has failed, the request (adc_start_channel, adc_start_channels and
\* both single-shot operations) invokes no start callback of the driver and
\* returns the supply's failure.
C8_SupplyFailureEndsRequest ==
    \A i \in FailedEnables :
        /\ \A j \in (i + 1)..Len(calls) :
            calls[j].fn \notin {"start_channel", "start_channels"}
        /\ pc = "done" => \E k \in FailedEnables : ret = calls[k].res

\* ---- the choice between the driver's multi-channel conversion and the manual
\* ---- mode --------------------------------------------------------------------
\* C9: adc_channels_single_shot takes the manual mode only when
\* adc_start_channels returned -ENOSYS. Any other error of adc_start_channels
\* (-EINVAL, a supply failure, a driver error) is returned with no
\* start_channel and no channel_data invoked, and once start_channels has
\* succeeded the manual mode is never taken, whatever channels_data returns.
C9_ManualOnlyOnENOSYS ==
    MultiShot =>
        /\ (pc = "manual" /\ Calls("channel_data") = <<>>) => ret = -ENOSYS
        /\ (pc \in {"manual", "channel_data"} \/ ManualCalls # <<>>) =>
            /\ Calls("channels_data") = <<>>
            /\ \A i \in 1..Len(calls) :
                calls[i].fn = "start_channels" => calls[i].res = -ENOSYS
        /\ \A i \in 1..Len(calls) :
            /\ (calls[i].fn = "start_channels" /\ calls[i].res = 0) =>
                /\ pc \in {"channels_data", "done"}
                /\ ManualCalls = <<>>
            /\ (calls[i].fn \in {"start_channels", "vdd_set_enable", "vss_set_enable"}
                /\ calls[i].res \notin {0, -ENOSYS}) =>
                /\ pc = "done"
                /\ ret = calls[i].res
                /\ i = Len(calls)
                /\ calls[i].fn = "start_channels" => ManualCalls = <<>>
        /\ (ops.start_channels /\ check_channel(req.arg, FALSE) # 0 /\ ret # -ENODEV) =>
            /\ pc = "done"
            /\ ret = -EINVAL
            /\ calls = <<>>

\* the driver's start_channels failed and the error came back, although the
\* driver has what the manual mode needs
C9_Witness ==
    /\ MultiShot /\ pc = "done" /\ ret = -EIO
    /\ ops.start_channel /\ ops.channel_data
    /\ calls = <<Invocation("start_channels", req.arg, -EIO)>>

\* C10: adc_channels_single_shot treats a mask alike on a driver with
\* start_channels and channels_data and on a driver without start_channels
\* that is served by the manual mode: with every conversion succeeding, the
\* operation gives one reading per requested channel or -EINVAL, and which
\* of the two does not depend on the kind of driver. Stated on the run of
\* either kind of driver: its outcome is the one the other kind decides.
NativeAccepts(m) == check_channel(m, FALSE) = 0

ManualAccepts(m) == \A c \in MaskChannels(m) : check_channel(c, TRUE) = 0

C10_UniformOutcome ==
    (MultiShot /\ pc = "done" /\ ret # -ENODEV
     /\ \A i \in 1..Len(calls) : calls[i].res = 0) =>
        /\ (ops.start_channels /\ ops.channels_data) =>
            /\ ret \in {0, -EINVAL}
            /\ ret = 0 <=> ManualAccepts(req.arg)
            /\ ret = 0 => {channels[i].id : i \in 1..Len(channels)} = MaskChannels(req.arg)
        /\ (~ops.start_channels /\ ops.start_channel /\ ops.channel_data) =>
            /\ ret \in {0, -EINVAL}
            /\ ret = 0 <=> NativeAccepts(req.arg)
            /\ ret = 0 => {channels[i].id : i \in 1..Len(channels)} = MaskChannels(req.arg)

\* ---- supply enabling, step by step ---------------------------------------------
SupplyCall(e) == e.fn \in {"vdd_set_enable", "vss_set_enable"}

StartCall(e) == e.fn \in {"start_channel", "start_channels"}

\* C13: adc_supply_enable asks vdd before vss and stops at the first failure:
\* a supply the device does not have is never asked (and is no error: the
\* driver's start follows the enabling of the supplies the device has); vss
\* is asked only right after vdd, if the device has one, was enabled; after a
\* failure of vdd, vss is not asked and the failure of vdd is what is
\* returned (adc_channels_single_shot, which goes on to the manual mode when
\* the value returned is -ENOSYS, is the one caller that may not hand it on).
C13_SupplyOrder ==
    \A i \in 1..Len(calls) :
        LET e == calls[i]
        IN  /\ e.fn = "vdd_set_enable" => uc_pdata.vdd_supply
            /\ e.fn = "vss_set_enable" =>
                    /\ uc_pdata.vss_supply
                    /\ uc_pdata.vdd_supply =>
                            /\ i > 1
                            /\ calls[i - 1].fn = "vdd_set_enable"
                            /\ calls[i - 1].res = 0
            /\ (e.fn = "vdd_set_enable" /\ e.res # 0) =>
                    /\ i < Len(calls) => calls[i + 1].fn # "vss_set_enable"
                    /\ (i = Len(calls) /\ pc = "done"
                        /\ ~(MultiShot /\ e.res = -ENOSYS)) => ret = e.res
            /\ StartCall(e) =>
                    /\ uc_pdata.vss_supply =>
                            /\ i > 1
                            /\ calls[i - 1].fn = "vss_set_enable"
                            /\ calls[i - 1].res = 0
                    /\ (uc_pdata.vdd_supply /\ ~uc_pdata.vss_supply) =>
                            /\ i > 1
                            /\ calls[i - 1].fn = "vdd_set_enable"
                            /\ calls[i - 1].res = 0

\* on a device with both supplies, enabling vdd failed: vss was not asked and
\* the request returned the failure
C13_Witness ==
    /\ req.op = "adc_start_channel" /\ pc = "done" /\ ret = -EIO
    /\ uc_pdata.vdd_supply /\ uc_pdata.vss_supply
    /\ calls = <<Invocation("vdd_set_enable", 1, -EIO)>>
    /\ ~regulator.vdd /\ ~regulator.vss

\* ---- the single-shot operations and the driver's callbacks ------------------------
SingleShot == req.op \in {"adc_channel_single_shot", "adc_channels_single_shot"}

\* the device was found: -ENODEV is what the lookup alone answers
Found == ret # -ENODEV

\* C14: a single-shot operation on a driver without the start callback or
\* without the read callback it needs (start_channel / channel_data for
\* adc_channel_single_shot, channels_data next to start_channels for
\* adc_channels_single_shot) returns -ENOSYS before anything else: no
\* -EINVAL instead, no supply asked, no callback of the driver invoked.
C14_RejectedFirst ==
    /\ (req.op = "adc_channel_single_shot" /\ pc = "done" /\ Found
        /\ (~ops.start_channel \/ ~ops.channel_data))
        => (ret = -ENOSYS /\ calls = <<>>)
    /\ (req.op = "adc_channels_single_shot" /\ pc = "done" /\ Found
        /\ ops.start_channels /\ ~ops.channels_data /\ ManualCalls = <<>>)
        => (ret = -ENOSYS /\ calls = <<>>)

\* C17: in a single-shot operation every read of the driver comes right
\* after the successful start of that conversion (start_channel of the same
\* channel, start_channels of the same mask) or after a read of it that
\* answered -EBUSY; so the conversion was started before its first read, no
\* read follows a start that failed, no start comes between two reads of a
\* conversion, and each conversion is started once (no channel is started
\* twice, no mask is started twice).
C17_StartOncePerConversion ==
    SingleShot =>
        /\ \A i \in 1..Len(calls) :
               LET e == calls[i]
                   start == IF e.fn = "channel_data" THEN "start_channel"
                            ELSE "start_channels"
               IN  e.fn \in {"channel_data", "channels_data"} =>
                       /\ i > 1
                       /\ calls[i - 1].arg = e.arg
                       /\ \/ calls[i - 1].fn = start /\ calls[i - 1].res = 0
                          \/ calls[i - 1].fn = e.fn /\ calls[i - 1].res = -EBUSY
        /\ Len(Calls("start_channels")) <= 1
        /\ LET started == Calls("start_channel")
           IN  \A i \in 1..Len(started), j \in 1..Len(started) :
                   i < j => started[i].arg < started[j].arg
        /\ pc = "channel_data" => Invoked("start_channel", PolledChannel) = 1
        /\ pc = "channels_data" => Invoked("start_channels", req.arg) = 1

\* adc_channel_single_shot read its channel on the second attempt: one start,
\* then a busy read, then the read that succeeded
C17_Witness ==
    /\ req.op = "adc_channel_single_shot" /\ pc = "done" /\ ret = 0
    /\ Len(calls) = 3
    /\ calls[1] = Invocation("start_channel", req.arg, 0)
    /\ calls[2] = Invocation("channel_data", req.arg, -EBUSY)
    /\ calls[3] = Invocation("channel_data", req.arg, 0)

\* C18: the driver's start callbacks are only ever invoked for channels of the
\* device: start_channel with a channel whose bit is set in channel_mask,
\* start_channels with a mask whose every bit is set in channel_mask.
C18_StartOnlyLegalChannels ==
    \A i \in 1..Len(calls) :
        /\ calls[i].fn = "start_channel"
            => Bit(uc_pdata.channel_mask, calls[i].arg) = 1
        /\ calls[i].fn = "start_channels"
            => MaskWithin(calls[i].arg, uc_pdata.channel_mask)

\* ---- the voltages ------------------------------------------------------------
Sign(negative) == IF negative THEN -1 ELSE 1

\* what regulator_get_value answered in the request that ends in the next state
ValueRead == calls'[1].res

\* C11: adc_vdd_value / adc_vss_value on a rail without a supply returns
\* -ENODATA (and stores nothing in *uV) if the cached microvolts are -ENODATA,
\* and otherwise succeeds with the cached microvolts, negated if the rail's
\* polarity is negative; the platdata is not modified.
C11_NoSupplyCachedValue ==
    [][/\ (Idle /\ req'.op = "adc_vdd_value" /\ ~uc_pdata.vdd_supply)
           => /\ uc_pdata' = uc_pdata
              /\ calls' = <<>>
              /\ IF uc_pdata.vdd_microvolts = -ENODATA
                 THEN ret' = -ENODATA /\ uV' = 0
                 ELSE /\ ret' = 0
                      /\ uV' = uc_pdata.vdd_microvolts
                                * Sign(uc_pdata.vdd_polarity_negative)
       /\ (Idle /\ req'.op = "adc_vss_value" /\ ~uc_pdata.vss_supply)
           => /\ uc_pdata' = uc_pdata
              /\ calls' = <<>>
              /\ IF uc_pdata.vss_microvolts = -ENODATA
                 THEN ret' = -ENODATA /\ uV' = 0
                 ELSE /\ ret' = 0
                      /\ uV' = uc_pdata.vss_microvolts
                                * Sign(uc_pdata.vss_polarity_negative)]_vars

\* vdd without a supply, of negative polarity, with vdd-microvolts = 1800:
\* adc_vdd_value gave -1800
C11_Witness ==
    /\ req.op = "adc_vdd_value" /\ pc = "done" /\ ret = 0
    /\ ~uc_pdata.vdd_supply /\ uc_pdata.vdd_polarity_negative
    /\ uc_pdata.vdd_microvolts = 1800
    /\ uV = -1800

\* C12: adc_vdd_value / adc_vss_value on a rail with a supply whose
\* regulator_get_value answers the voltage v succeeds with v, negated if the
\* rail's polarity is negative, and the cached microvolts are v afterwards,
\* whatever they were.
C12_LiveValueCached ==
    [][/\ (Idle /\ req'.op = "adc_vdd_value" /\ uc_pdata.vdd_supply
           /\ ValueRead >= 0)
           => /\ ret' = 0
              /\ uV' = ValueRead * Sign(uc_pdata.vdd_polarity_negative)
              /\ uc_pdata'.vdd_microvolts = ValueRead
       /\ (Idle /\ req'.op = "adc_vss_value" /\ uc_pdata.vss_supply
           /\ ValueRead >= 0)
           => /\ ret' = 0
              /\ uV' = ValueRead * Sign(uc_pdata.vss_polarity_negative)
              /\ uc_pdata'.vss_microvolts = ValueRead]_vars

\* vdd of negative polarity whose supply could not be read when the device
\* was probed (nothing read was cached then): adc_vdd_value read 1800, gave
\* -1800 and cached 1800
C12_Witness ==
    /\ req.op = "adc_vdd_value" /\ pc = "done" /\ ret = 0
    /\ diag.vdd = -EIO
    /\ uc_pdata.vdd_supply /\ uc_pdata.vdd_polarity_negative
    /\ calls = <<Invocation("vdd_get_value", 0, 1800)>>
    /\ uc_pdata.vdd_microvolts = 1800
    /\ uV = -1800

\* C19: adc_vdd_value / adc_vss_value on a rail with a supply whose
\* regulator_get_value fails returns that error (no success, no cached
\* voltage, no -ENODATA), stores nothing in *uV and leaves the platdata, the
\* cached microvolts and the polarity with it, as it was.
C19_FailedQueryPropagates ==
    [][/\ (Idle /\ req'.op = "adc_vdd_value" /\ uc_pdata.vdd_supply
           /\ ValueRead < 0)
           => /\ ret' = ValueRead
              /\ uV' = 0
              /\ uc_pdata' = uc_pdata
       /\ (Idle /\ req'.op = "adc_vss_value" /\ uc_pdata.vss_supply
           /\ ValueRead < 0)
           => /\ ret' = ValueRead
              /\ uV' = 0
              /\ uc_pdata' = uc_pdata]_vars

\* vss of negative polarity with 3300 cached from its supply: the supply
\* could not be read and adc_vss_value returned the error
C19_Witness ==
    /\ req.op = "adc_vss_value" /\ pc = "done" /\ ret = -EIO
    /\ uc_pdata.vss_supply /\ uc_pdata.vss_polarity_negative
    /\ uc_pdata.vss_microvolts = 3300
    /\ calls = <<Invocation("vss_get_value", 0, -EIO)>>
    /\ uV = 0

\* C16: adc_pre_probe returns 0 whatever happens to the voltages; and a rail
\* whose resolution failed then (an error was reported for it) has -ENODATA
\* as cached microvolts, so that adc_vdd_value / adc_vss_value on it, while
\* it has no supply, returns -ENODATA.
C16_FailedResolutionLeavesNoData ==
    /\ (req.op = "adc_pre_probe" /\ pc = "done") => ret = 0
    /\ (pc # "unprobed" /\ diag.vdd # 0 /\ ~uc_pdata.vdd_supply)
        => /\ uc_pdata.vdd_microvolts = -ENODATA
           /\ (req.op = "adc_vdd_value" /\ pc = "done") => ret = -ENODATA
    /\ (pc # "unprobed" /\ diag.vss # 0 /\ ~uc_pdata.vss_supply)
        => /\ uc_pdata.vss_microvolts = -ENODATA
           /\ (req.op = "adc_vss_value" /\ pc = "done") => ret = -ENODATA

\* C15: whatever the request, a supply that is enabled stays enabled, and
\* regulator_set_enable is only ever asked to enable.
C15_SuppliesOnlyEnabled ==
    [][/\ regulator.vdd => regulator'.vdd
       /\ regulator.vss => regulator'.vss
       /\ \A i \in 1..Len(calls') :
              SupplyCall(calls'[i]) => calls'[i].arg = 1]_vars

\* both supplies are on, and in the request just made enabling one failed
C15_Witness ==
    /\ pc = "done"
    /\ regulator.vdd /\ regulator.vss
    /\ FailedEnables # {}
====
